---- MODULE Spec2Model ----
(***************************************************************************)
(* A model of htmplate's src/compiler.js: the PreProcessor that rewrites   *)
(* space indentation into tabs and the Compiler that turns tab-indented    *)
(* lines into nested HTML.                                                 *)
(*                                                                         *)
(* A JavaScript string is a sequence of one-character strings.  JavaScript *)
(* indices are 0-based; At, substring and indexOf-like helpers below take  *)
(* 0-based indices so that the definitions read like the source.           *)
(***************************************************************************)
EXTENDS Integers, Sequences, FiniteSets, TLC

VARIABLES
    pc,         \* position of the driver script (src/compiler.js 324-337)
    raw,        \* the text read from test.tmpl (fileBuffer)
    content,    \* the driver's `content`, rewritten by each stage
    prev,       \* `content` before the latest PreProcessor.process
    lines,      \* Compiler.lines: sequence of Compiler.Line records
    i,          \* compile's loop index into lines (0-based)
    lineStack,  \* compile's lineStack: references (0-based indices) to lines
    compiled,   \* compile's output string
    trace,      \* the order in which compile pushed and popped Lines
    twin,       \* the same document indented with two spaces per tab
    twinHtml    \* the HTML the twin document compiles to

vars == <<pc, raw, content, prev, lines, i, lineStack, compiled, trace, twin, twinHtml>>

(***************************************************************************)
(* Bounds of the model.                                                    *)
(***************************************************************************)
MaxLen == 7
MaxLines == 3
MaxCompileLines == 2
MaxLevel == 2
MaxPairs == 2
MaxClasses == 2

(***************************************************************************)
(* Characters and JavaScript string primitives.                            *)
(***************************************************************************)
TAB == "\t"
NL == "\n"
SP == " "

\* What _parseId and _parseClasses return when they find nothing, and the
\* tag of a Line not yet parsed.
undefined == <<"undefined">>
null == <<"null">>

\* Compiler.Line.NO_TAG (src/compiler.js 116): a value no parsed tag string
\* can equal.
NO_TAG == <<"NO_TAG">>

\* s[k], 0-based; past the end a value that is no character.
At(s, k) == IF k >= 0 /\ k < Len(s) THEN s[k + 1] ELSE "undefined"

Min(a, b) == IF a < b THEN a ELSE b
Max(a, b) == IF a > b THEN a ELSE b

\* String.prototype.substring(a, b): arguments clamped to [0, length] and
\* swapped when a > b.
substring(s, a, b) ==
    LET ca == Max(0, Min(a, Len(s)))
        cb == Max(0, Min(b, Len(s)))
        lo == Min(ca, cb)
        hi == Max(ca, cb)
    IN  SubSeq(s, lo + 1, hi)

\* String.prototype.substring(a).
substringFrom(s, a) == substring(s, a, Len(s))

IsWhiteSpace(c) == c \in {SP, TAB, NL}

RECURSIVE trimStart(_)
trimStart(s) ==
    IF s # <<>> /\ IsWhiteSpace(Head(s)) THEN trimStart(Tail(s)) ELSE s

RECURSIVE trimEnd(_)
trimEnd(s) ==
    IF s # <<>> /\ IsWhiteSpace(s[Len(s)])
    THEN trimEnd(SubSeq(s, 1, Len(s) - 1))
    ELSE s

\* String.prototype.trim().
trim(s) == trimEnd(trimStart(s))

\* content.split('\n'): always at least one (possibly empty) piece.
RECURSIVE split(_)
split(s) ==
    IF \A k \in 1..Len(s) : s[k] # NL
    THEN <<s>>
    ELSE LET k == CHOOSE k \in 1..Len(s) :
                      s[k] = NL /\ \A m \in 1..(k - 1) : s[m] # NL
         IN  <<SubSeq(s, 1, k - 1)>> \o split(SubSeq(s, k + 1, Len(s)))

\* lines.join('\n'): the empty string for no lines.
RECURSIVE join(_)
join(ls) ==
    IF ls = <<>> THEN <<>>
    ELSE IF Len(ls) = 1 THEN ls[1]
    ELSE ls[1] \o <<NL>> \o join(Tail(ls))

\* n tab characters: the `tabs += '\t'` loops.
RECURSIVE Tabs(_)
Tabs(n) == IF n <= 0 THEN <<>> ELSE <<TAB>> \o Tabs(n - 1)

(***************************************************************************)
(* PreProcessor (src/compiler.js 4-93).                                    *)
(***************************************************************************)
INDENTED_WITH_SPACES == 1
INDENTED_WITH_TABS == 2

\* The loop of _removeEmptyLines at index k (0-based) over ls: a blank line
\* is spliced out and the index stepped back, so the line that slides into
\* its place is examined too.
RECURSIVE removeEmptyLinesFrom(_, _)
removeEmptyLinesFrom(ls, k) ==
    IF k >= Len(ls) THEN ls
    ELSE IF Len(trim(ls[k + 1])) = 0
         THEN removeEmptyLinesFrom(SubSeq(ls, 1, k) \o SubSeq(ls, k + 2, Len(ls)), k)
         ELSE removeEmptyLinesFrom(ls, k + 1)

\* The same loop without the `i--` after the splice: the line after a
\* removed one is skipped.
RECURSIVE removeEmptyLinesSkipping(_, _)
removeEmptyLinesSkipping(ls, k) ==
    IF k >= Len(ls) THEN ls
    ELSE IF Len(trim(ls[k + 1])) = 0
         THEN removeEmptyLinesSkipping(SubSeq(ls, 1, k) \o SubSeq(ls, k + 2, Len(ls)), k + 1)
         ELSE removeEmptyLinesSkipping(ls, k + 1)

NoDecrementRemoveEmptyLines(ls) == removeEmptyLinesSkipping(ls, 0)

_removeEmptyLines(ls) == removeEmptyLinesFrom(ls, 0)

\* The first line that starts with a space or a tab decides; tabs when no
\* line starts with either.
RECURSIVE _getIndentationType(_)
_getIndentationType(ls) ==
    IF ls = <<>> THEN INDENTED_WITH_TABS
    ELSE IF At(ls[1], 0) = SP THEN INDENTED_WITH_SPACES
    ELSE IF At(ls[1], 0) = TAB THEN INDENTED_WITH_TABS
    ELSE _getIndentationType(Tail(ls))

\* Index of the first character of s that is not a space, -1 when there is
\* none (the inner loops of _getSpacesPerTab and _replaceSpacesWithTabs).
FirstNonSpace(s) ==
    IF \A k \in 1..Len(s) : s[k] = SP THEN -1
    ELSE (CHOOSE k \in 1..Len(s) :
              s[k] # SP /\ \A m \in 1..(k - 1) : s[m] = SP) - 1

\* The leading spaces of the first line that starts with a space and holds
\* something else after them; a line of spaces only falls through to the
\* next line; 0 when no line returns.
RECURSIVE _getSpacesPerTab(_)
_getSpacesPerTab(ls) ==
    IF ls = <<>> THEN 0
    ELSE IF At(ls[1], 0) = SP /\ FirstNonSpace(ls[1]) # -1
         THEN FirstNonSpace(ls[1])
         ELSE _getSpacesPerTab(Tail(ls))

\* The same loop with `j <= numTabs` as its test: one more tab whenever the
\* division is exact.
NumTabIterationsInclusive(spacesEndAt, spacesPerTab) ==
    IF spacesPerTab = 0 THEN 0
    ELSE CHOOSE n \in 0..(spacesEndAt + 1) :
             /\ n * spacesPerTab > spacesEndAt
             /\ \A j \in 0..(n - 1) : j * spacesPerTab <= spacesEndAt

\* The number of times `for (j = 0; j < spacesEndAt / spacesPerTab; j++)`
\* runs its body.  The division is JavaScript's (not truncated), so the
\* loop runs for every j with j * spacesPerTab < spacesEndAt; 0 / 0 is NaN
\* and runs it never.  A positive count over width 0 never terminates and
\* has no value here.
NumTabIterations(spacesEndAt, spacesPerTab) ==
    CHOOSE n \in 0..spacesEndAt :
        /\ n * spacesPerTab >= spacesEndAt
        /\ \A j \in 0..(n - 1) : j * spacesPerTab < spacesEndAt

\* One line of _replaceSpacesWithTabs.
ReplaceLine(s, spacesPerTab) ==
    LET spacesEndAt == FirstNonSpace(s)
    IN  IF spacesEndAt # -1
        THEN Tabs(NumTabIterations(spacesEndAt, spacesPerTab))
                 \o substringFrom(s, spacesEndAt)
        ELSE s

_replaceSpacesWithTabs(ls, spacesPerTab) ==
    [k \in 1..Len(ls) |-> ReplaceLine(ls[k], spacesPerTab)]

\* new PreProcessor(text).process()
process(text) ==
    LET l0 == split(text)
        l1 == _removeEmptyLines(l0)
        l2 == IF _getIndentationType(l1) = INDENTED_WITH_SPACES
              THEN _replaceSpacesWithTabs(l1, _getSpacesPerTab(l1))
              ELSE l1
    IN  join(l2)

(***************************************************************************)
(* Compiler (src/compiler.js 95-322).                                      *)
(***************************************************************************)

\* new Compiler.Line(line, level)
Line(line, level) == [line |-> line, level |-> level, tag |-> null, props |-> <<>>]

\* The number of leading tab characters of s.
RECURSIVE LeadingTabs(_)
LeadingTabs(s) ==
    IF s # <<>> /\ Head(s) = TAB THEN 1 + LeadingTabs(Tail(s)) ELSE 0

\* One Line per piece of content.split('\n'): level = leading tabs, line =
\* the rest, trimmed.
_getLineObjects(text) ==
    LET ls == split(text)
    IN  [k \in 1..Len(ls) |->
            Line(trim(substringFrom(ls[k], LeadingTabs(ls[k]))), LeadingTabs(ls[k]))]

\* The inner loop of _expandSingleLineStatements from index j: the index of
\* the first ':' met while inParens is false, -1 when the line ends first.
RECURSIVE ScanColon(_, _, _)
ScanColon(line, j, inParens) ==
    IF j >= Len(line) THEN -1
    ELSE IF At(line, j) = "(" THEN ScanColon(line, j + 1, TRUE)
    ELSE IF At(line, j) = ")" THEN ScanColon(line, j + 1, FALSE)
    ELSE IF ~inParens /\ At(line, j) = ":" THEN j
    ELSE ScanColon(line, j + 1, inParens)

\* The outer loop of _expandSingleLineStatements at index k (0-based).  The
\* new Line is spliced in at k + 1 and the loop goes on at k + 1: the loop
\* scans the Line it has just inserted.
RECURSIVE ExpandFrom(_, _)
ExpandFrom(ls, k) ==
    IF k >= Len(ls) THEN ls
    ELSE LET line == ls[k + 1].line
             level == ls[k + 1].level
             j == ScanColon(line, 0, FALSE)
             nextLine == trim(substringFrom(line, j + 1))
         IN  IF j # -1 /\ Len(nextLine) # 0
             THEN ExpandFrom(
                      SubSeq(ls, 1, k)
                          \o <<[ls[k + 1] EXCEPT !.line = substring(line, 0, j + 1)]>>
                          \o <<Line(nextLine, level + 1)>>
                          \o SubSeq(ls, k + 2, Len(ls)),
                      k + 1)
             ELSE ExpandFrom(ls, k + 1)

_expandSingleLineStatements(ls) == ExpandFrom(ls, 0)

IsTagEnd(c) == c \in {"#", ".", "(", ":"}

\* _parseTag with the space counted among the characters that end a tag.
SpaceEndsParseTag(line) ==
    IF \A k \in 1..Len(line) : ~(IsTagEnd(line[k]) \/ line[k] = SP) THEN NO_TAG
    ELSE LET k == CHOOSE k \in 1..Len(line) :
                      /\ IsTagEnd(line[k]) \/ line[k] = SP
                      /\ \A m \in 1..(k - 1) : ~(IsTagEnd(line[m]) \/ line[m] = SP)
         IN  substring(line, 0, k - 1)

\* The text before the first of # . ( : and NO_TAG when the line holds none.
_parseTag(line) ==
    IF \A k \in 1..Len(line) : ~IsTagEnd(line[k]) THEN NO_TAG
    ELSE LET k == CHOOSE k \in 1..Len(line) :
                      IsTagEnd(line[k]) /\ \A m \in 1..(k - 1) : ~IsTagEnd(line[m])
         IN  substring(line, 0, k - 1)

\* Index of the first character at or after j that is in `ends`, -1 when
\* there is none.
RECURSIVE FindFrom(_, _, _)
FindFrom(line, j, ends) ==
    IF j >= Len(line) THEN -1
    ELSE IF At(line, j) \in ends THEN j
    ELSE FindFrom(line, j + 1, ends)

\* The loop of _parseId from index k: at a '#', the text up to the next of
\* . ( : is returned; a '#' with none of them after it is passed over.
RECURSIVE ParseIdFrom(_, _)
ParseIdFrom(line, k) ==
    IF k >= Len(line) THEN undefined
    ELSE IF At(line, k) = "#" /\ FindFrom(line, k + 1, {".", "(", ":"}) # -1
         THEN substring(line, k + 1, FindFrom(line, k + 1, {".", "(", ":"}))
         ELSE ParseIdFrom(line, k + 1)

_parseId(line) == ParseIdFrom(line, 0)

\* The loop of _parseClasses from index k: at a '.' outside parentheses the
\* text up to the next of . ( : # is pushed; a '.' with none of them after
\* it pushes nothing.
RECURSIVE ParseClassesFrom(_, _, _, _)
ParseClassesFrom(line, k, inParens, classes) ==
    IF k >= Len(line) THEN classes
    ELSE IF At(line, k) = "(" THEN ParseClassesFrom(line, k + 1, TRUE, classes)
    ELSE IF At(line, k) = ")" THEN ParseClassesFrom(line, k + 1, FALSE, classes)
    ELSE IF ~inParens /\ At(line, k) = "."
              /\ FindFrom(line, k + 1, {".", "(", ":", "#"}) # -1
         THEN ParseClassesFrom(line, k + 1, inParens,
                  Append(classes,
                         substring(line, k + 1,
                                   FindFrom(line, k + 1, {".", "(", ":", "#"}))))
         ELSE ParseClassesFrom(line, k + 1, inParens, classes)

\* classes.join(' ')
RECURSIVE joinSpace(_)
joinSpace(ss) ==
    IF ss = <<>> THEN <<>>
    ELSE IF Len(ss) = 1 THEN ss[1]
    ELSE ss[1] \o <<SP>> \o joinSpace(Tail(ss))

_parseClasses(line) ==
    LET classes == ParseClassesFrom(line, 0, FALSE, <<>>)
    IN  IF Len(classes) > 0 THEN joinSpace(classes) ELSE undefined

\* A JavaScript object with string keys, as the sequence of its
\* <<key, value>> pairs in insertion order (the order `for (key in obj)`
\* visits keys that are not integers).
HasKey(obj, key) == \E k \in 1..Len(obj) : obj[k][1] = key

\* obj[key] = value: a key already there keeps its place.
SetProp(obj, key, value) ==
    IF HasKey(obj, key)
    THEN [k \in 1..Len(obj) |-> IF obj[k][1] = key THEN <<key, value>> ELSE obj[k]]
    ELSE Append(obj, <<key, value>>)

\* obj[key], for a key that is there.
GetProp(obj, key) == obj[CHOOSE k \in 1..Len(obj) : obj[k][1] = key][2]

\* while (s[k] == ' ') k++
RECURSIVE SkipSpaces(_, _)
SkipSpaces(s, k) == IF At(s, k) = SP THEN SkipSpaces(s, k + 1) ELSE k

\* while (k < s.length && s[k] != ' ') k++
RECURSIVE SkipToSpace(_, _)
SkipToSpace(s, k) ==
    IF k < Len(s) /\ At(s, k) # SP THEN SkipToSpace(s, k + 1) ELSE k

\* The second loop of _parseProps, about to test `i < length` with i = k.
\* After a value and the spaces behind it, k stands on the first character
\* of the next name, and the loop's own i++ steps over that character.
RECURSIVE PropsLoop(_, _, _, _)
PropsLoop(s, k, propStartsAt, props) ==
    IF k >= Len(s) THEN props
    ELSE IF propStartsAt = -1 THEN PropsLoop(s, k + 1, k, props)
    ELSE IF At(s, k) = ":"
         THEN LET propName == substring(s, propStartsAt, k)
                  valueAt == SkipSpaces(s, k + 1)
                  valueEnd == SkipToSpace(s, valueAt)
                  after == SkipSpaces(s, valueEnd)
              IN  PropsLoop(s, after + 1, -1,
                            SetProp(props, propName, substring(s, valueAt, valueEnd)))
         ELSE PropsLoop(s, k + 1, propStartsAt, props)

\* The first loop of _parseProps: the first '(' and the first ')' after it.
ParensStartAt(line) == FindFrom(line, 0, {"("})

ParensEndAt(line) ==
    IF ParensStartAt(line) = -1 THEN -1
    ELSE FindFrom(line, ParensStartAt(line) + 1, {")"})

_parseProps(line) ==
    IF ParensEndAt(line) = -1 THEN <<>>
    ELSE PropsLoop(trim(substring(line, ParensStartAt(line) + 1, ParensEndAt(line))),
                   0, -1, <<>>)

\* All named attributes assigned onto the Line's props, in order.
RECURSIVE AssignAll(_, _)
AssignAll(obj, props) ==
    IF props = <<>> THEN obj
    ELSE AssignAll(SetProp(obj, props[1][1], props[1][2]), Tail(props))

\* `if (id)`, `if (classes)`: undefined and the empty string are falsy.
Truthy(v) == v # undefined /\ v # <<>>

\* The body of _parseLines' loop for one Line.
ParseLine(l) ==
    LET id == _parseId(l.line)
        classes == _parseClasses(l.line)
        p0 == l.props
        p1 == IF Truthy(id) THEN SetProp(p0, <<"i", "d">>, id) ELSE p0
        p2 == IF Truthy(classes)
              THEN SetProp(p1, <<"c", "l", "a", "s", "s">>, classes)
              ELSE p1
    IN  [l EXCEPT !.tag = _parseTag(l.line),
                  !.props = AssignAll(p2, _parseProps(l.line))]

_parseLines(ls) == [k \in 1..Len(ls) |-> ParseLine(ls[k])]

\* new Compiler(text).lines
Compiler(text) == _parseLines(_expandSingleLineStatements(_getLineObjects(text)))

\* The ` key="value"` pieces of an opening tag.
RECURSIVE RenderProps(_)
RenderProps(props) ==
    IF props = <<>> THEN <<>>
    ELSE <<SP>> \o props[1][1] \o <<"=", "\"">> \o props[1][2] \o <<"\"">>
             \o RenderProps(Tail(props))

_getOpeningTag(line) ==
    IF line.tag = NO_TAG
    THEN Tabs(line.level) \o line.line \o <<NL>>
    ELSE Tabs(line.level) \o <<"<">> \o line.tag \o RenderProps(line.props)
             \o <<">">> \o <<NL>>

_getClosingTag(line) ==
    IF line.tag = NO_TAG
    THEN <<>>
    ELSE Tabs(line.level) \o <<"<", "/">> \o line.tag \o <<">">> \o <<NL>>

\* compile's inner while condition with > in place of >=.
StrictlyDeeperMustClose(ls, stack, k) ==
    /\ Len(stack) > 0
    /\ ls[stack[Len(stack)] + 1].level > ls[k + 1].level

\* compile's inner while condition (line 123), for the Line at index k.
MustClose(ls, stack, k) ==
    /\ Len(stack) > 0
    /\ ls[stack[Len(stack)] + 1].level >= ls[k + 1].level

\* compile from loop index k with the given stack and output, run to its
\* return.
RECURSIVE CompileFrom(_, _, _, _)
CompileFrom(ls, k, stack, out) ==
    IF k >= Len(ls)
    THEN IF Len(stack) > 0
         THEN CompileFrom(ls, k, SubSeq(stack, 1, Len(stack) - 1),
                          out \o _getClosingTag(ls[stack[Len(stack)] + 1]))
         ELSE out
    ELSE IF MustClose(ls, stack, k)
         THEN CompileFrom(ls, k, SubSeq(stack, 1, Len(stack) - 1),
                          out \o _getClosingTag(ls[stack[Len(stack)] + 1]))
         ELSE CompileFrom(ls, k + 1, Append(stack, k),
                          out \o _getOpeningTag(ls[k + 1]))

\* Compiler.prototype.compile
compile(ls) == CompileFrom(ls, 0, <<>>, <<>>)

\* The driver script: pre-process, construct the Compiler, compile.
Pipeline(text) == compile(Compiler(process(text)))

(***************************************************************************)
(* The driver script (src/compiler.js 324-337) and compile's loops, as     *)
(* actions.                                                                *)
(***************************************************************************)
SPACES_PER_TAB == 2

\* content = pp.process()
Normalize ==
    /\ pc = "raw"
    /\ prev' = content
    /\ content' = process(content)
    /\ pc' = "canon"
    /\ UNCHANGED <<raw, lines, i, lineStack, compiled, trace, twin, twinHtml>>

\* The pre-processor run again on its own output.
Renormalize ==
    /\ pc = "canon"
    /\ prev' = content
    /\ content' = process(content)
    /\ pc' = "renormalized"
    /\ UNCHANGED <<raw, lines, i, lineStack, compiled, trace, twin, twinHtml>>

\* cc = new Compiler(content)
Construct ==
    /\ pc = "canon"
    /\ lines' = Compiler(content)
    /\ pc' = "compile"
    /\ UNCHANGED <<raw, content, prev, i, lineStack, compiled, trace, twin, twinHtml>>

\* compile's inner while loop, one iteration: pop the top Line, close it.
PopClose ==
    /\ pc = "compile"
    /\ i < Len(lines)
    /\ MustClose(lines, lineStack, i)
    /\ lineStack' = SubSeq(lineStack, 1, Len(lineStack) - 1)
    /\ compiled' = compiled \o _getClosingTag(lines[lineStack[Len(lineStack)] + 1])
    /\ trace' = Append(trace, <<"pop", lineStack[Len(lineStack)]>>)
    /\ UNCHANGED <<pc, raw, content, prev, lines, i, twin, twinHtml>>

\* The rest of the for loop's body: push the Line, open it, i++.
PushOpen ==
    /\ pc = "compile"
    /\ i < Len(lines)
    /\ ~MustClose(lines, lineStack, i)
    /\ lineStack' = Append(lineStack, i)
    /\ compiled' = compiled \o _getOpeningTag(lines[i + 1])
    /\ trace' = Append(trace, <<"push", i>>)
    /\ i' = i + 1
    /\ UNCHANGED <<pc, raw, content, prev, lines, twin, twinHtml>>

\* compile's last while loop, one iteration.
FinalPop ==
    /\ pc = "compile"
    /\ i >= Len(lines)
    /\ Len(lineStack) > 0
    /\ lineStack' = SubSeq(lineStack, 1, Len(lineStack) - 1)
    /\ compiled' = compiled \o _getClosingTag(lines[lineStack[Len(lineStack)] + 1])
    /\ trace' = Append(trace, <<"pop", lineStack[Len(lineStack)]>>)
    /\ UNCHANGED <<pc, raw, content, prev, lines, i, twin, twinHtml>>

\* compile without its last while loop: returns as soon as the for loop ends.
ReturnWithoutFinalLoop ==
    /\ pc = "compile"
    /\ i >= Len(lines)
    /\ pc' = "done"
    /\ UNCHANGED <<raw, content, prev, lines, i, lineStack, compiled, trace, twin, twinHtml>>

\* return compiled
Return ==
    /\ pc = "compile"
    /\ i >= Len(lines)
    /\ Len(lineStack) = 0
    /\ pc' = "done"
    /\ UNCHANGED <<raw, content, prev, lines, i, lineStack, compiled, trace, twin, twinHtml>>

\* content = cc.compile(), as one step.
CompileAll ==
    /\ pc = "compile"
    /\ compiled' = compile(lines)
    /\ pc' = "done"
    /\ UNCHANGED <<raw, content, prev, lines, i, lineStack, trace, twin, twinHtml>>

\* The driver script run on the twin document.
CompileTwin ==
    /\ pc = "done"
    /\ twinHtml' = Pipeline(twin)
    /\ pc' = "both"
    /\ UNCHANGED <<raw, content, prev, lines, i, lineStack, compiled, trace, twin>>

Idle ==
    /\ lines = <<>>
    /\ i = 0
    /\ lineStack = <<>>
    /\ compiled = <<>>
    /\ trace = <<>>
    /\ twinHtml = <<>>

(***************************************************************************)
(* SpecPre: any raw text of at most MaxLen characters over space, tab,     *)
(* newline and a letter, pre-processed and then pre-processed again.       *)
(***************************************************************************)
RawAlphabet == {SP, TAB, NL, "a"}

RawTexts == UNION {[1..n -> RawAlphabet] : n \in 0..MaxLen}

InitPre ==
    /\ pc = "raw"
    /\ raw \in RawTexts
    /\ content = raw
    /\ prev = raw
    /\ twin = <<>>
    /\ Idle

NextPre == Normalize \/ Renormalize

SpecPre == InitPre /\ [][NextPre]_vars

\* The lines the pre-processor keeps of the raw text, before any rewriting.
KeptLines == _removeEmptyLines(split(raw))

\* C3: normalization is idempotent: the pre-processor applied to its own
\* output returns that output unchanged, for every raw text.
NormalizeIdempotent == pc = "renormalized" => content = prev

\* A space-indented text with a blank line has been normalized twice.
NormalizeIdempotentWitness ==
    /\ pc = "renormalized"
    /\ _getIndentationType(KeptLines) = INDENTED_WITH_SPACES
    /\ Len(KeptLines) < Len(split(raw))
    /\ Len(KeptLines) >= 2
    /\ content # raw

\* C10: in a space-indented document with inferred indent width w, every
\* line with s leading spaces is rewritten to floor(s / w) tabs followed by
\* the rest of the line after the spaces.
RewriteTruncates ==
    (pc = "canon" /\ _getIndentationType(KeptLines) = INDENTED_WITH_SPACES) =>
        /\ Len(split(content)) = Len(KeptLines)
        /\ \A k \in 1..Len(KeptLines) :
               split(content)[k] =
                   Tabs(FirstNonSpace(KeptLines[k]) \div _getSpacesPerTab(KeptLines))
                       \o substringFrom(KeptLines[k], FirstNonSpace(KeptLines[k]))

\* What the rewriting does in place of truncating: a line with s leading
\* spaces gets the least number of tabs n with n * w >= s.
RewriteRoundsUp ==
    (pc = "canon" /\ _getIndentationType(KeptLines) = INDENTED_WITH_SPACES) =>
        /\ _getSpacesPerTab(KeptLines) > 0
        /\ \A k \in 1..Len(KeptLines) :
               LET s == FirstNonSpace(KeptLines[k])
                   w == _getSpacesPerTab(KeptLines)
               IN  split(content)[k] =
                       Tabs((s + w - 1) \div w) \o substringFrom(KeptLines[k], s)

(***************************************************************************)
(* Documents built from lines: a line is `level` tabs and a body.          *)
(***************************************************************************)
RECURSIVE Concat(_)
Concat(ss) == IF ss = <<>> THEN <<>> ELSE ss[1] \o Concat(Tail(ss))

DocLine(l) == Tabs(l[1]) \o l[2]

\* The documents of 1..maxLines lines with levels 0..MaxLevel and bodies
\* from `bodies`.
Documents(bodies, maxLines) ==
    {join([k \in 1..Len(d) |-> DocLine(d[k])]) :
        d \in UNION {[1..n -> (0..MaxLevel) \X bodies] : n \in 1..maxLines}}

(***************************************************************************)
(* SpecCompile: canonical documents whose lines are text, a tag, a tag     *)
(* with an inline text child, or a tag with an inline tag with an inline   *)
(* text child; the Compiler is constructed and compile runs loop           *)
(* iteration by loop iteration.                                            *)
(***************************************************************************)
TextBody == <<"a">>
TagBody == <<"d", ":">>
InlineBody == <<"u", ":", SP, "l", "i", SP, "H">>
NestedInlineBody == <<"u", ":", SP, "l", ":", SP, "H">>

CompileBodies == {TextBody, TagBody, InlineBody, NestedInlineBody}

InitCompile ==
    /\ pc = "canon"
    /\ raw \in Documents(CompileBodies, MaxCompileLines)
    /\ content = raw
    /\ prev = raw
    /\ twin = <<>>
    /\ Idle

NextCompile == Construct \/ PopClose \/ PushOpen \/ FinalPop \/ Return

SpecCompile == InitCompile /\ [][NextCompile]_vars

\* compile run loop iteration by loop iteration returns what compile run
\* as one step returns.
StepwiseCompileAgrees == pc = "done" => compiled = compile(lines)

\* How often event e occurs in compile's trace, and where it occurs first.
Occurrences(e) == Cardinality({p \in 1..Len(trace) : trace[p] = e})

Position(e) == CHOOSE p \in 1..Len(trace) : trace[p] = e

\* The text compile appends at a trace event.
Emitted(e) ==
    IF e[1] = "push" THEN _getOpeningTag(lines[e[2] + 1])
    ELSE _getClosingTag(lines[e[2] + 1])

\* The number of opening tags (a '<' not followed by '/') and of closing
\* tags ('<' followed by '/') in a text.
OpeningTags(out) ==
    Cardinality({p \in 1..Len(out) : out[p] = "<" /\ At(out, p) # "/"})

ClosingTags(out) ==
    Cardinality({p \in 1..Len(out) : out[p] = "<" /\ At(out, p) = "/"})

LineIndices == 0..(Len(lines) - 1)

\* C1: compile pushes every Line exactly once and pops it exactly once, the
\* stack is empty when compile returns, the output is what the pushes and
\* pops emitted in their order, it holds as many opening as closing tags,
\* and a Line opened while another is still open is closed before that
\* other one (LIFO: tags never overlap).
BalancedOutput ==
    pc = "done" =>
        /\ lineStack = <<>>
        /\ \A k \in LineIndices :
               /\ Occurrences(<<"push", k>>) = 1
               /\ Occurrences(<<"pop", k>>) = 1
               /\ Position(<<"push", k>>) < Position(<<"pop", k>>)
        /\ compiled = Concat([p \in 1..Len(trace) |-> Emitted(trace[p])])
        /\ OpeningTags(compiled) = ClosingTags(compiled)
        /\ \A a, b \in LineIndices :
               (/\ Position(<<"push", a>>) < Position(<<"push", b>>)
                /\ Position(<<"push", b>>) < Position(<<"pop", a>>))
                   => Position(<<"pop", b>>) < Position(<<"pop", a>>)

\* compile has returned from a document in which a tagged Line was opened
\* inside another, a Line was closed before a later one was opened, and an
\* untagged Line was emitted.
BalancedOutputWitness ==
    /\ pc = "done"
    /\ \E a, b \in LineIndices :
           /\ lines[a + 1].tag # NO_TAG
           /\ lines[b + 1].tag # NO_TAG
           /\ Position(<<"push", a>>) < Position(<<"push", b>>)
           /\ Position(<<"push", b>>) < Position(<<"pop", a>>)
    /\ \E a, b \in LineIndices :
           Position(<<"pop", a>>) < Position(<<"push", b>>)
    /\ \E a \in LineIndices : lines[a + 1].tag = NO_TAG

\* The level of the Line at position p (1 = bottom) of the emission stack.
StackLevel(p) == lines[lineStack[p] + 1].level

\* The Line sequence is shaped like an indentation tree: it starts at
\* level 0 and no Line is more than one level deeper than the Line before.
TreeShaped ==
    lines # <<>> =>
        /\ lines[1].level = 0
        /\ \A k \in 2..Len(lines) : lines[k].level <= lines[k - 1].level + 1

\* C2 as stated: every Line on the emission stack has exactly as many Lines
\* open below it as its level.
DepthFidelity == \A p \in 1..Len(lineStack) : StackLevel(p) = p - 1

\* C2, amended: a Line of level k has at most k Lines open below it, all of
\* lower level (levels strictly increase up the stack); it has exactly k
\* below it when the Line sequence is shaped like an indentation tree.
DepthBounded ==
    /\ \A p \in 1..Len(lineStack) : p - 1 <= StackLevel(p)
    /\ \A p, q \in 1..Len(lineStack) : p < q => StackLevel(p) < StackLevel(q)
    /\ TreeShaped => DepthFidelity

\* Three Lines are open, one inside the other, in a tree-shaped document in
\* which compile has already closed a Line.
DepthBoundedWitness ==
    /\ pc = "compile"
    /\ TreeShaped
    /\ Len(lineStack) = 3
    /\ \E p \in 1..Len(trace) : trace[p][1] = "pop"

\* The lines of the compiled output.
OutLines == split(compiled)

\* The levels at which the document holds the line `u: li H`.
InlineLevels ==
    {LeadingTabs(split(content)[k]) : k \in
        {m \in 1..Len(split(content)) :
            split(content)[m] = Tabs(LeadingTabs(split(content)[m])) \o InlineBody}}

\* C7 as stated: `u: li H` at level L compiles to <u> at level L holding,
\* at level L + 1, an element <li> ... </li> whose body is H, closed before
\* </u>.
InlineChildIsElement ==
    pc = "done" =>
        \A L \in InlineLevels :
            \E a, b, c, d \in 1..Len(OutLines) :
                /\ a < b /\ b < c /\ c < d
                /\ OutLines[a] = Tabs(L) \o <<"<", "u", ">">>
                /\ OutLines[b] = Tabs(L + 1) \o <<"<", "l", "i", ">">>
                /\ trim(OutLines[b + 1]) = <<"H">>
                /\ OutLines[c] = Tabs(L + 1) \o <<"<", "/", "l", "i", ">">>
                /\ OutLines[d] = Tabs(L) \o <<"<", "/", "u", ">">>

\* C7, amended: `u: li H` at level L becomes the Line `u:` with tag u at
\* level L followed by the untagged Line `li H` at level L + 1; the output
\* holds <u> at level L, directly followed by the text `li H` at level
\* L + 1 (no <li> element is produced), and </u> at level L after it, the
\* child being popped before its parent.
InlineChildIsText ==
    pc = "done" =>
        /\ \A L \in InlineLevels :
               /\ \E a, d \in 1..Len(OutLines) :
                      /\ a + 1 < d
                      /\ OutLines[a] = Tabs(L) \o <<"<", "u", ">">>
                      /\ OutLines[a + 1] = Tabs(L + 1) \o <<"l", "i", SP, "H">>
                      /\ OutLines[d] = Tabs(L) \o <<"<", "/", "u", ">">>
               /\ \E j \in LineIndices :
                      /\ j + 1 \in LineIndices
                      /\ lines[j + 1] = [line |-> <<"u", ":">>, level |-> L,
                                         tag |-> <<"u">>, props |-> <<>>]
                      /\ lines[j + 2] = [line |-> <<"l", "i", SP, "H">>, level |-> L + 1,
                                         tag |-> NO_TAG, props |-> <<>>]
                      /\ Position(<<"pop", j + 1>>) < Position(<<"pop", j>>)
        /\ \A a \in 1..Len(OutLines) :
               trim(OutLines[a]) # <<"<", "l", "i", ">">>

\* The document is the single line `u: li H` at level 0 and has been
\* compiled.
InlineChildIsTextWitness ==
    /\ pc = "done"
    /\ content = InlineBody
    /\ compiled = <<"<", "u", ">", NL, TAB, "l", "i", SP, "H", NL, "<", "/", "u", ">", NL>>

\* The Lines of the document as tokenized, before expansion.
Tokenized == _getLineObjects(content)

\* C8: every tokenized line gives rise to at most one synthetic Line, so
\* the expanded sequence has at most twice as many Lines as the tokenized
\* one, and no synthetic Line lies more than one level above the line it
\* came from (stated for the documents of one line, where every Line comes
\* from that line).
OneSplitPerLine ==
    pc # "canon" =>
        /\ Len(lines) <= 2 * Len(Tokenized)
        /\ Len(Tokenized) = 1 =>
               \A k \in 1..Len(lines) : lines[k].level <= Tokenized[1].level + 1

(***************************************************************************)
(* SpecParse: one-line documents `d`, an optional `#x`, up to MaxClasses   *)
(* dot-prefixed class names, an optional parenthesis group of up to        *)
(* MaxPairs name:value pairs separated by one or two spaces, and an        *)
(* optional closing colon; the Compiler is constructed and compile runs.   *)
(***************************************************************************)
IdKey == <<"i", "d">>
ClassKey == <<"c", "l", "a", "s", "s">>

ClassNames == {<<"a">>, <<"b">>}
AttrNames == {IdKey, ClassKey, <<"k">>}
AttrValues == {<<"y">>, <<"z">>}
Separators == {<<SP>>, <<SP, SP>>}
Suffixes == {<<>>, <<":">>}
IdParts == {<<>>, <<"#", "x">>}

ClassSeqs == UNION {[1..n -> ClassNames] : n \in 0..MaxClasses}
PairSeqs == UNION {[1..n -> AttrNames \X AttrValues] : n \in 0..MaxPairs}

\* .a.b.c
Dotted(names) == Concat([k \in 1..Len(names) |-> <<".">> \o names[k]])

RECURSIVE JoinWith(_, _)
JoinWith(ss, sep) ==
    IF ss = <<>> THEN <<>>
    ELSE IF Len(ss) = 1 THEN ss[1]
    ELSE ss[1] \o sep \o JoinWith(Tail(ss), sep)

\* (name:value name:value), nothing for no pairs.
Group(pairs, sep) ==
    IF pairs = <<>> THEN <<>>
    ELSE <<"(">>
             \o JoinWith([k \in 1..Len(pairs) |-> pairs[k][1] \o <<":">> \o pairs[k][2]], sep)
             \o <<")">>

ParseDocuments ==
    {<<"d">> \o idp \o Dotted(names) \o Group(pairs, sep) \o suffix :
        idp \in IdParts, names \in ClassSeqs, pairs \in PairSeqs,
        sep \in Separators, suffix \in Suffixes}

InitParse ==
    /\ pc = "canon"
    /\ raw \in ParseDocuments
    /\ content = raw
    /\ prev = raw
    /\ twin = <<>>
    /\ Idle

NextParse == Construct \/ CompileAll

SpecParse == InitParse /\ [][NextParse]_vars

\* C5: a tag followed by n >= 1 dot-prefixed class names outside
\* parentheses gets one class attribute whose value is all n names, the
\* last one included, in order, joined by single spaces.
ClassAggregation ==
    pc # "canon" =>
        \A idp \in IdParts, names \in ClassSeqs \ {<<>>}, suffix \in Suffixes :
            content = <<"d">> \o idp \o Dotted(names) \o suffix =>
                /\ Cardinality({k \in 1..Len(lines[1].props) :
                                   lines[1].props[k][1] = ClassKey}) = 1
                /\ GetProp(lines[1].props, ClassKey) = joinSpace(names)

\* The pairs of a group name their keys once each.
DistinctNames(pairs) ==
    \A p, q \in 1..Len(pairs) : p # q => pairs[p][1] # pairs[q][1]

\* How often the text pat occurs in the text out.
CountSub(out, pat) ==
    Cardinality({p \in 0..(Len(out) - Len(pat)) : SubSeq(out, p + 1, p + Len(pat)) = pat})

\* C6: a line with a # or . shorthand and a named attribute id or class in
\* its parenthesis group holds that key exactly once, with the named
\* attribute's value, and the opening tag renders it once.
AttributePrecedence ==
    pc = "done" =>
        \A short \in {<<"#", "x">>, <<".", "a">>}, pairs \in PairSeqs \ {<<>>},
           sep \in Separators, p \in 1..MaxPairs :
            LET key == IF short[1] = "#" THEN IdKey ELSE ClassKey
            IN  (/\ content = <<"d">> \o short \o Group(pairs, sep)
                 /\ DistinctNames(pairs)
                 /\ p <= Len(pairs)
                 /\ pairs[p][1] = key) =>
                    /\ Cardinality({k \in 1..Len(lines[1].props) :
                                       lines[1].props[k][1] = key}) = 1
                    /\ GetProp(lines[1].props, key) = pairs[p][2]
                    /\ CountSub(compiled, <<SP>> \o key \o <<"=">>) = 1
                    /\ CountSub(compiled,
                           <<SP>> \o key \o <<"=", "\"">> \o pairs[p][2] \o <<"\"">>) = 1

\* C9: for a parenthesis group of n >= 1 pairs name:value with distinct
\* names, separated by one or more spaces, _parseProps returns exactly
\* those names, each with its own value, in their order.
NamedAttributes ==
    pc # "canon" =>
        \A pairs \in PairSeqs \ {<<>>}, sep \in Separators :
            (content = <<"d">> \o Group(pairs, sep) /\ DistinctNames(pairs)) =>
                _parseProps(lines[1].line) = pairs

(***************************************************************************)
(* SpecEquiv: a tab-indented document and its twin, in which every leading *)
(* tab is two spaces, both run through the driver script.                  *)
(***************************************************************************)
EquivBodies == {<<"a">>, <<"d", ":">>, <<>>}

RECURSIVE Spaces(_)
Spaces(n) == IF n <= 0 THEN <<>> ELSE <<SP>> \o Spaces(n - 1)

\* The text with every leading tab of every line replaced by
\* SPACES_PER_TAB spaces.
SpaceTwin(text) ==
    join([k \in 1..Len(split(text)) |->
             Spaces(SPACES_PER_TAB * LeadingTabs(split(text)[k]))
                 \o substringFrom(split(text)[k], LeadingTabs(split(text)[k]))])

InitEquiv ==
    /\ pc = "raw"
    /\ raw \in Documents(EquivBodies, MaxLines)
    /\ content = raw
    /\ prev = raw
    /\ twin = SpaceTwin(raw)
    /\ Idle

NextEquiv == Normalize \/ Construct \/ CompileAll \/ CompileTwin

SpecEquiv == InitEquiv /\ [][NextEquiv]_vars

\* C4 as stated: a document indented with tabs and the same document with
\* every leading tab replaced by two spaces compile to identical HTML.
SpaceTabEquivalence == pc = "both" => compiled = twinHtml

\* The first line of ls that starts with a tab starts with exactly one tab
\* (or no line starts with a tab).
RECURSIVE FirstIndentIsOneTab(_)
FirstIndentIsOneTab(ls) ==
    IF ls = <<>> THEN TRUE
    ELSE IF At(ls[1], 0) = TAB THEN LeadingTabs(ls[1]) = 1
    ELSE FirstIndentIsOneTab(Tail(ls))

\* C4, amended: the two documents compile to identical HTML when the first
\* non-blank line that is indented at all is indented with exactly one tab
\* (two spaces in the twin), so that the indent width inferred from the
\* twin is two.
SpaceTabEquivalenceFromOneTab ==
    (pc = "both" /\ FirstIndentIsOneTab(KeptLines)) => compiled = twinHtml

\* A document with a line at level 1 and a later line at level 2 and its
\* space-indented twin have both been compiled.
SpaceTabEquivalenceWitness ==
    /\ pc = "both"
    /\ FirstIndentIsOneTab(KeptLines)
    /\ \E k \in 1..Len(KeptLines) : LeadingTabs(KeptLines[k]) = 2
    /\ \E k \in 1..Len(lines) : lines[k].tag # NO_TAG
    /\ _getIndentationType(_removeEmptyLines(split(twin))) = INDENTED_WITH_SPACES

====
